---- MODULE Spec2Model ----
(***************************************************************************)
(* Model of package netqueue (src/netqueue/queue.go): the encoding         *)
(* pipeline ChannelFromWriter/write and the decoding pipeline              *)
(* ChannelFromReader/read, with the gob stream between them modelled at    *)
(* the level of gob messages (type definitions and values).                *)
(***************************************************************************)
EXTENDS Integers, Sequences, FiniteSets, TLC

\* ------------------------------------------------------------------ bounds

\* Longest sequence of distinct messages a producer sends / a source holds.
MaxMsgs == 3
\* Longest Args slice of a message.
MaxArgs == 2

\* ------------------------------------------------------- program constants

\* const ChanSize = 32
ChanSize == 32

\* make(chan Message, ChanSize) in ChannelFromWriter
MsgChanCapUnbounded == 4 * ChanSize
MsgChanCap == ChanSize
\* make(chan error, ChanSize) in ChannelFromWriter
ErrChanCap == ChanSize
\* make(chan Message, ChanSize) in ChannelFromReader
OutChanCapOver == ChanSize + 1
OutChanCap == ChanSize
\* make(chan error, ChanSize) in ChannelFromReader
DErrChanCap == ChanSize

\* ---------------------------------------------------------------- Message

Strs == {"x", "y"}
Actions == {"", "regenerate apprc"}
ArgSeqs == UNION {[1..n -> Strs] : n \in 0..MaxArgs}

\* type Message struct { Action string; Args []string }
\* ArgsNil tells a nil slice from an empty, non-nil one.
Message == {m \in [Action : Actions, Args : ArgSeqs, ArgsNil : BOOLEAN] :
              m.ArgsNil => m.Args = <<>>}

Msg(a, args) == [Action |-> a, Args |-> args, ArgsNil |-> FALSE]

\* var msg Message: the zero value.
ZeroMessage == [Action |-> "", Args |-> <<>>, ArgsNil |-> TRUE]

\* ------------------------------------------------------------- gob stream

\* A gob stream is a sequence of gob messages; each is one Write on the sink.
\* A type definition carries the id of the type it defines; a value carries
\* the id of its type and the fields that are not zero (gob omits the others).
TypeDef(id) == [k |-> "type", id |-> id, action |-> <<>>, args |-> <<>>]
Corrupt == [k |-> "bad", id |-> "", action |-> <<>>, args |-> <<>>]

ValueOf(m) ==
    [k |-> "value", id |-> "Message",
     action |-> IF m.Action = "" THEN <<>> ELSE <<m.Action>>,
     args |-> IF Len(m.Args) = 0 THEN <<>> ELSE <<m.Args>>]

\* The types a Message value needs, in the order an Encoder describes them.
MessageTypes == <<"Message", "[]string">>

\* gob.NewEncoder(w): an encoder that has sent no type yet.
NewEncoder == {}

\* encoder.Encode(msg) on an encoder that has sent the types in sent: the
\* definitions of the types not sent yet, then the value.
GobEncode(sent, m) ==
    SelectSeq([i \in 1..Len(MessageTypes) |-> TypeDef(MessageTypes[i])],
              LAMBDA t : t.id \notin sent)
      \o <<ValueOf(m)>>

\* The value a decoder stores into a fresh Message: fields absent from the
\* stream keep their zero value.
FromValueReversed(it) ==
    [Action |-> IF it.action = <<>> THEN "" ELSE it.action[1],
     Args |-> IF it.args = <<>> THEN <<>>
              ELSE [i \in 1..Len(it.args[1]) |->
                        it.args[1][Len(it.args[1]) + 1 - i]],
     ArgsNil |-> it.args = <<>>]
FromValue(it) ==
    [Action |-> IF it.action = <<>> THEN ZeroMessage.Action ELSE it.action[1],
     Args |-> IF it.args = <<>> THEN ZeroMessage.Args ELSE it.args[1],
     ArgsNil |-> it.args = <<>>]

\* decoder.Decode(&msg) on the stream items ended by end ("eof": the reader
\* returns io.EOF; "err": it returns another error), from position pos, on a
\* decoder that knows the types in known.
RECURSIVE GobDecode(_, _, _, _)
GobDecode(items, end, pos, known) ==
    IF pos > Len(items)
    THEN [res |-> IF end = "eof" THEN "eof" ELSE "err",
          err |-> IF end = "eof" THEN "EOF" ELSE "source error",
          msg |-> ZeroMessage, pos |-> pos, known |-> known]
    ELSE LET it == items[pos] IN
         CASE it.k = "type" ->
                IF it.id \in known
                THEN [res |-> "err", err |-> "gob: duplicate type received",
                      msg |-> ZeroMessage, pos |-> pos + 1, known |-> known]
                ELSE GobDecode(items, end, pos + 1, known \cup {it.id})
           [] it.k = "value" ->
                IF \A i \in 1..Len(MessageTypes) : MessageTypes[i] \in known
                THEN [res |-> "ok", err |-> "",
                      msg |-> FromValue(it), pos |-> pos + 1, known |-> known]
                ELSE [res |-> "err", err |-> "gob: unknown type id",
                      msg |-> ZeroMessage, pos |-> pos + 1, known |-> known]
           [] OTHER ->
                [res |-> "err", err |-> "gob: corrupted data",
                 msg |-> ZeroMessage, pos |-> pos + 1, known |-> known]

\* ------------------------------------------------------------------ inputs

SeqsUpTo(S, n) == UNION {[1..k -> S] : k \in 0..n}

\* The messages used where the order of several messages matters.
OrderMsgs == {Msg("regenerate apprc", <<"x", "y">>), Msg("", <<>>)}

\* n copies of one message: the runs that fill a channel of ChanSize items.
LongMsgs(n) == [i \in 1..n |-> Msg("regenerate apprc", <<"x">>)]
\* Enough messages to fill the error channel, occupy the worker and fill the
\* message channel behind it.
LongLen == 2 * ChanSize + 2

\* The sink (an io.Writer): its Write fails on the writes numbered lo..hi.
NoFail == [lo |-> 1, hi |-> 0]
AllFail == [lo |-> 1, hi |-> 3 * LongLen]
FailOnce(k) == [lo |-> k, hi |-> k]
Fails(f, n) == f.lo <= n /\ n <= f.hi

\* The stream one encoder writes for the messages ms: the type definitions
\* once, then the values.
RECURSIVE StreamOf(_, _)
StreamOf(sent, ms) ==
    IF ms = <<>> THEN <<>>
    ELSE GobEncode(sent, Head(ms))
           \o StreamOf({MessageTypes[i] : i \in 1..Len(MessageTypes)}, Tail(ms))

\* s with the item x put after its first q items.
InsertAfter(s, q, x) == SubSeq(s, 1, q) \o <<x>> \o SubSeq(s, q + 1, Len(s))

\* The number of values among the first q items of a stream of one encoder.
ValuesIn(q) == IF q <= Len(MessageTypes) THEN 0 ELSE q - Len(MessageTypes)

\* A run where the producer sends msgs to an encoder whose sink fails as fail
\* says, and the decoder then reads what the sink received.
WiredInput(ms, f) ==
    [msgs |-> ms, fail |-> f, wired |-> TRUE,
     items |-> <<>>, end |-> "eof", srcMsgs |-> <<>>, valid |-> 0]

\* A run where the decoder reads a source prepared beforehand: the stream of
\* ms, of which the first k records are valid, ended by e.
SourceInput(its, e, ms, k) ==
    [msgs |-> <<>>, fail |-> NoFail, wired |-> FALSE,
     items |-> its, end |-> e, srcMsgs |-> ms, valid |-> k]

\* Wired runs of one message, over every Message value.
SingleInputs == {WiredInput(<<m>>, NoFail) : m \in Message}

\* Wired runs of up to MaxMsgs messages, the sink failing never, always, or on
\* one Write.
ShortInputs ==
    UNION {{WiredInput(ms, f) :
              f \in {NoFail, AllFail} \cup {FailOnce(k) : k \in 1..(3 * Len(ms))}} :
            ms \in SeqsUpTo(OrderMsgs, MaxMsgs)}

\* Sources holding the stream of up to MaxMsgs messages (or of enough messages
\* to fill the message channel), ended cleanly or by a read error.
CleanSources ==
    UNION {{SourceInput(StreamOf({}, ms), e, ms, Len(ms)) : e \in {"eof", "err"}} :
            ms \in SeqsUpTo(OrderMsgs, MaxMsgs) \cup {LongMsgs(ChanSize + 2)}}

\* Sources holding such a stream with corrupted bytes somewhere in it.
CorruptSources ==
    UNION {{SourceInput(InsertAfter(StreamOf({}, ms), q, Corrupt), "eof",
                        ms, ValuesIn(q)) :
              q \in 0..Len(StreamOf({}, ms))} :
            ms \in SeqsUpTo(OrderMsgs, MaxMsgs)}

\* Wired runs long enough to fill the channels of the encoder.
LongInputs == {WiredInput(LongMsgs(LongLen), f) : f \in {NoFail, AllFail}}

Inputs ==
    SingleInputs \cup ShortInputs \cup CleanSources \cup CorruptSources
      \cup LongInputs

\* The inputs of the liveness runs: the long run is just long enough to block
\* the worker on a full error channel.
LiveInputs ==
    SingleInputs \cup ShortInputs \cup CleanSources \cup CorruptSources
      \cup {WiredInput(LongMsgs(ChanSize + 1), AllFail)}

\* -------------------------------------------- package api: the pool handlers

MaxContexts == 2
MaxPools == 2

StatusCreated == 201
StatusNoContent == 204
StatusBadRequest == 400
StatusNotFound == 404
StatusConflict == 409

\* A Go error value: nil, a plain error, or a *terrors.HTTP.
NilErr == [kind |-> "nil", Code |-> 0, Message |-> ""]
GoError(text) == [kind |-> "error", Code |-> 0, Message |-> text]
HTTP(code, text) == [kind |-> "terrors.HTTP", Code |-> code, Message |-> text]

ErrUnauthorized == GoError("permission.ErrUnauthorized")
ErrDefaultPoolAlreadyExists == GoError("provision.ErrDefaultPoolAlreadyExists")
ErrPoolNameIsRequired == GoError("provision.ErrPoolNameIsRequired")
ErrPoolNotFound == GoError("provision.ErrPoolNotFound")

\* Errors of the collaborators that the handlers do not name.
ErrParseForm == GoError("r.ParseForm failed")
ErrDecodeValues == GoError("dec.DecodeValues failed")
ErrEventNew == GoError("event.New failed")
ErrStorage == GoError("storage failure")
ErrEncode == GoError("json Encode failed")

\* The error with which the pool storage refuses a second pool of one name.
ErrDuplicatePoolName == GoError("pool name already exists")

\* What provision.AddPool can return.
AddPoolErrors ==
    {NilErr, ErrDefaultPoolAlreadyExists, ErrPoolNameIsRequired,
     ErrDuplicatePoolName, ErrStorage}

\* What the other provisioning functions can return.
ProvisionErrors == {NilErr, ErrPoolNotFound, ErrDefaultPoolAlreadyExists, ErrStorage}

\* A []string: nil, or a slice with elements.
NilSlice == [isNil |-> TRUE, elems |-> <<>>]
Slice(elems) == [isNil |-> FALSE, elems |-> elems]

\* permission contexts of the token.
Contexts ==
    {[CtxType |-> "global", Value |-> ""],
     [CtxType |-> "team", Value |-> "t1"],
     [CtxType |-> "team", Value |-> "t2"],
     [CtxType |-> "pool", Value |-> "p1"]}

\* provision.Pool values: two of them share a Name.
Pool ==
    {[Name |-> "p1", Default |-> FALSE],
     [Name |-> "p1", Default |-> TRUE],
     [Name |-> "p2", Default |-> FALSE]}

\* What ListPossiblePools and ListPools can return.
ListResults ==
    {[err |-> NilErr, pools |-> ps] : ps \in SeqsUpTo(Pool, MaxPools)}
        \cup {[err |-> ErrStorage, pools |-> <<>>]}

\* A request with what its collaborators will answer.
NoRequest ==
    [handler |-> "none", allowed |-> FALSE, parseErr |-> FALSE,
     decodeErr |-> FALSE, name |-> "", hasTeam |-> FALSE, appendStr |-> "",
     evtErr |-> FALSE, provErr |-> NilErr, contexts |-> <<>>,
     possible |-> [err |-> NilErr, pools |-> <<>>],
     named |-> [err |-> NilErr, pools |-> <<>>], writeErr |-> FALSE]

PoolListRequests ==
    {[NoRequest EXCEPT !.handler = "poolList", !.contexts = cs, !.possible = lp,
                       !.named = ln, !.writeErr = we] :
        cs \in SeqsUpTo(Contexts, MaxContexts), lp \in ListResults,
        ln \in ListResults, we \in BOOLEAN}

AddPoolRequests ==
    {[NoRequest EXCEPT !.handler = "addPoolHandler", !.allowed = a,
                       !.parseErr = pe, !.decodeErr = de, !.name = n,
                       !.evtErr = ee, !.provErr = x] :
        a \in BOOLEAN, pe \in BOOLEAN, de \in BOOLEAN, n \in {"", "pool1"},
        ee \in BOOLEAN, x \in AddPoolErrors}

RemovePoolRequests ==
    {[NoRequest EXCEPT !.handler = "removePoolHandler", !.allowed = a,
                       !.parseErr = pe, !.name = "pool1", !.evtErr = ee,
                       !.provErr = x] :
        a \in BOOLEAN, pe \in BOOLEAN, ee \in BOOLEAN, x \in ProvisionErrors}

AddTeamRequests ==
    {[NoRequest EXCEPT !.handler = "addTeamToPoolHandler", !.allowed = a,
                       !.parseErr = pe, !.name = "pool1", !.hasTeam = ht,
                       !.evtErr = ee, !.provErr = x] :
        a \in BOOLEAN, pe \in BOOLEAN, ht \in BOOLEAN, ee \in BOOLEAN,
        x \in ProvisionErrors}

RemoveTeamRequests ==
    {[NoRequest EXCEPT !.handler = "removeTeamToPoolHandler", !.allowed = a,
                       !.parseErr = pe, !.name = "pool1", !.hasTeam = ht,
                       !.evtErr = ee, !.provErr = x] :
        a \in BOOLEAN, pe \in BOOLEAN, ht \in BOOLEAN, ee \in BOOLEAN,
        x \in ProvisionErrors}

PoolUpdateRequests ==
    {[NoRequest EXCEPT !.handler = "poolUpdateHandler", !.allowed = a,
                       !.parseErr = pe, !.decodeErr = de, !.name = "pool1",
                       !.evtErr = ee, !.provErr = x] :
        a \in BOOLEAN, pe \in BOOLEAN, de \in BOOLEAN, ee \in BOOLEAN,
        x \in ProvisionErrors}

ConstraintListRequests ==
    {[NoRequest EXCEPT !.handler = "poolConstraintList", !.allowed = a,
                       !.possible = lp, !.writeErr = we] :
        a \in BOOLEAN, lp \in ListResults, we \in BOOLEAN}

ConstraintSetRequests ==
    {[NoRequest EXCEPT !.handler = "poolConstraintSet", !.allowed = a,
                       !.parseErr = pe, !.decodeErr = de, !.name = n,
                       !.appendStr = s, !.evtErr = ee, !.provErr = x] :
        a \in BOOLEAN, pe \in BOOLEAN, de \in BOOLEAN, n \in {"", "pool1"},
        s \in {"", "true", "false", "maybe"}, ee \in BOOLEAN,
        x \in {NilErr, ErrStorage}}

\* What a handler call did: the calls it made on its collaborators in order,
\* the error it returned, the status it gave to w.WriteHeader (0: none), the
\* arguments evt.Done was called with, the list it encoded to the response
\* and the filters it gave to ListPossiblePools and ListPools.
Return(c, e, st) ==
    [calls |-> c, ret |-> e, status |-> st, done |-> <<>>, body |-> <<>>,
     teams |-> NilSlice, poolNames |-> NilSlice]

\* A return whose deferred call hands nil to evt.Done.
ReturnDeferredNil(c, e, st) ==
    [calls |-> Append(c, "evt.Done"), ret |-> e, status |-> st,
     done |-> <<NilErr>>, body |-> <<>>, teams |-> NilSlice,
     poolNames |-> NilSlice]

\* A return after defer func() { evt.Done(err) }(): the result err is
\* assigned, then the deferred call reads it.
ReturnDeferred(c, e, st) ==
    [calls |-> Append(c, "evt.Done"), ret |-> e, status |-> st,
     done |-> <<e>>, body |-> <<>>, teams |-> NilSlice,
     poolNames |-> NilSlice]

\* err = r.ParseForm(); if err == nil { err = dec.DecodeValues(...) }
FormError(q) ==
    IF q.parseErr THEN ErrParseForm
    ELSE IF q.decodeErr THEN ErrDecodeValues
    ELSE NilErr

FormCalls(q) ==
    IF q.parseErr THEN <<"r.ParseForm">> ELSE <<"r.ParseForm", "dec.DecodeValues">>

\* strconv.ParseBool, its error ignored.
ParseBool(s) == s \in {"1", "t", "T", "TRUE", "true", "True"}

\* poolList, lines 34-46: the loop over the contexts, from context i on.
RECURSIVE ScanContexts(_, _, _, _)
ScanContexts(cs, i, teams, poolNames) ==
    IF i > Len(cs) THEN [teams |-> Slice(teams), poolNames |-> Slice(poolNames)]
    ELSE IF cs[i].CtxType = "global"
    THEN [teams |-> NilSlice, poolNames |-> NilSlice]
    ELSE ScanContexts(cs, i + 1,
                      IF cs[i].CtxType = "team" THEN Append(teams, cs[i].Value)
                                                ELSE teams,
                      IF cs[i].CtxType = "pool" THEN Append(poolNames, cs[i].Value)
                                                ELSE poolNames)

\* A loop that keeps every pool.
KeepAll(pools, i, poolsMap, poolList) ==
    pools

\* poolList, lines 58-66: the loop that drops the pools whose Name is in
\* poolsMap, from pool i on.
RECURSIVE DropSeen(_, _, _, _)
DropSeen(pools, i, poolsMap, poolList) ==
    IF i > Len(pools) THEN poolList
    ELSE IF pools[i].Name \in poolsMap
    THEN DropSeen(pools, i + 1, poolsMap, poolList)
    ELSE DropSeen(pools, i + 1, poolsMap \cup {pools[i].Name},
                  Append(poolList, pools[i]))

poolList(q) ==
    LET f == ScanContexts(q.contexts, 1, <<>>, <<>>)
        c1 == <<"permission.ContextsForPermission",
                "permission.ContextsForPermission", "provision.ListPossiblePools">>
        listNamed == Len(f.poolNames.elems) > 0
        c2 == IF listNamed THEN Append(c1, "provision.ListPools") ELSE c1
        pools == IF listNamed THEN q.possible.pools \o q.named.pools
                              ELSE q.possible.pools
        list == DropSeen(pools, 1, {}, <<>>)
        out(c, e, st, b) ==
            [calls |-> c, ret |-> e, status |-> st, done |-> <<>>, body |-> b,
             teams |-> f.teams, poolNames |-> f.poolNames]
    IN  IF q.possible.err # NilErr THEN out(c1, q.possible.err, 0, <<>>)
        ELSE IF listNamed /\ q.named.err # NilErr THEN out(c2, q.named.err, 0, <<>>)
        ELSE IF Len(list) = 0
        THEN out(Append(c2, "w.WriteHeader"), NilErr, StatusNoContent, <<>>)
        ELSE out(Append(c2, "json.Encode"),
                 IF q.writeErr THEN ErrEncode ELSE NilErr, 0, list)

addPoolHandler(q) ==
    LET c1 == <<"permission.Check">>
        c2 == c1 \o FormCalls(q)
        c3 == Append(c2, "event.New")
        c4 == Append(c3, "provision.AddPool")
        err == q.provErr
    IN  IF ~q.allowed THEN Return(c1, ErrUnauthorized, 0)
        ELSE IF FormError(q) # NilErr
        THEN Return(c2, HTTP(StatusBadRequest, FormError(q).Message), 0)
        ELSE IF q.name = ""
        THEN Return(c2, HTTP(StatusBadRequest, ErrPoolNameIsRequired.Message), 0)
        ELSE IF q.evtErr THEN Return(c3, ErrEventNew, 0)
        ELSE IF err = ErrDefaultPoolAlreadyExists
        THEN ReturnDeferred(c4, HTTP(StatusConflict, err.Message), 0)
        ELSE IF err = ErrPoolNameIsRequired
        THEN ReturnDeferred(c4, HTTP(StatusBadRequest, err.Message), 0)
        ELSE IF err = NilErr
        THEN ReturnDeferred(Append(c4, "w.WriteHeader"), err, StatusCreated)
        ELSE ReturnDeferred(c4, err, 0)

\* A remove handler that opens its event before it checks the permission.
removePoolHandlerEventFirst(q) ==
    LET c1 == <<"r.ParseForm", "event.New">>
        c2 == Append(c1, "permission.Check")
        c3 == Append(c2, "provision.RemovePool")
        err == q.provErr
    IN  IF q.evtErr THEN Return(c1, ErrEventNew, 0)
        ELSE IF ~q.allowed THEN ReturnDeferred(c2, ErrUnauthorized, 0)
        ELSE IF err = ErrPoolNotFound
        THEN ReturnDeferred(c3, HTTP(StatusNotFound, err.Message), 0)
        ELSE ReturnDeferred(c3, err, 0)

removePoolHandler(q) ==
    LET c1 == <<"r.ParseForm", "permission.Check">>
        c2 == Append(c1, "event.New")
        c3 == Append(c2, "provision.RemovePool")
        err == q.provErr
    IN  IF ~q.allowed THEN Return(c1, ErrUnauthorized, 0)
        ELSE IF q.evtErr THEN Return(c2, ErrEventNew, 0)
        ELSE IF err = ErrPoolNotFound
        THEN ReturnDeferred(c3, HTTP(StatusNotFound, err.Message), 0)
        ELSE ReturnDeferred(c3, err, 0)

addTeamToPoolHandler(q) ==
    LET msg == "You must provide the team."
        c1 == <<"permission.Check">>
        c2 == Append(c1, "r.ParseForm")
        c3 == Append(c2, "event.New")
        c4 == Append(c3, "provision.AddTeamsToPool")
        err == q.provErr
    IN  IF ~q.allowed THEN Return(c1, ErrUnauthorized, 0)
        ELSE IF q.parseErr THEN Return(c2, HTTP(StatusBadRequest, msg), 0)
        ELSE IF q.evtErr THEN Return(c3, ErrEventNew, 0)
        ELSE IF q.hasTeam
        THEN IF err = ErrPoolNotFound
             THEN ReturnDeferred(c4, HTTP(StatusNotFound, err.Message), 0)
             ELSE ReturnDeferred(c4, err, 0)
        ELSE ReturnDeferred(c3, HTTP(StatusBadRequest, msg), 0)

removeTeamToPoolHandler(q) ==
    LET c1 == <<"r.ParseForm", "permission.Check">>
        c2 == Append(c1, "event.New")
        c3 == Append(c2, "provision.RemoveTeamsFromPool")
        err == q.provErr
    IN  IF ~q.allowed THEN Return(c1, ErrUnauthorized, 0)
        ELSE IF q.evtErr THEN Return(c2, ErrEventNew, 0)
        ELSE IF q.hasTeam
        THEN IF err = ErrPoolNotFound
             THEN ReturnDeferred(c3, HTTP(StatusNotFound, err.Message), 0)
             ELSE ReturnDeferred(c3, err, 0)
        ELSE ReturnDeferred(c2, HTTP(StatusBadRequest, "You must provide the team"), 0)

poolUpdateHandler(q) ==
    LET c1 == <<"r.ParseForm", "permission.Check">>
        c2 == Append(c1, "event.New")
        c3 == Append(c2, "dec.DecodeValues")
        c4 == Append(c3, "provision.PoolUpdate")
        err == q.provErr
    IN  IF ~q.allowed THEN Return(c1, ErrUnauthorized, 0)
        ELSE IF q.evtErr THEN Return(c2, ErrEventNew, 0)
        ELSE IF q.decodeErr
        THEN ReturnDeferred(c3, HTTP(StatusBadRequest, ErrDecodeValues.Message), 0)
        ELSE IF err = ErrPoolNotFound
        THEN ReturnDeferred(c4, HTTP(StatusNotFound, err.Message), 0)
        ELSE IF err = ErrDefaultPoolAlreadyExists
        THEN ReturnDeferred(c4, HTTP(StatusConflict, err.Message), 0)
        ELSE ReturnDeferred(c4, err, 0)

poolConstraintList(q) ==
    LET c1 == <<"permission.Check">>
        c2 == Append(c1, "provision.ListPoolsConstraints")
        constraints == q.possible.pools
        out(c, e, st, b) ==
            [calls |-> c, ret |-> e, status |-> st, done |-> <<>>, body |-> b,
             teams |-> NilSlice, poolNames |-> NilSlice]
    IN  IF ~q.allowed THEN Return(c1, ErrUnauthorized, 0)
        ELSE IF q.possible.err # NilErr THEN Return(c2, q.possible.err, 0)
        ELSE IF Len(constraints) = 0
        THEN Return(Append(c2, "w.WriteHeader"), NilErr, StatusNoContent)
        ELSE out(Append(c2, "json.Encode"),
                 IF q.writeErr THEN ErrEncode ELSE NilErr, 0, constraints)

poolConstraintSet(q) ==
    LET c1 == <<"permission.Check">>
        c2 == c1 \o FormCalls(q)
        c3 == Append(c2, "event.New")
        append == IF q.appendStr # "" THEN ParseBool(q.appendStr) ELSE FALSE
        c4 == Append(c3, IF append THEN "provision.AppendPoolConstraint"
                                   ELSE "provision.SetPoolConstraint")
    IN  IF ~q.allowed THEN Return(c1, ErrUnauthorized, 0)
        ELSE IF FormError(q) # NilErr
        THEN Return(c2, HTTP(StatusBadRequest, FormError(q).Message), 0)
        ELSE IF q.name = ""
        THEN Return(c2, HTTP(StatusBadRequest, "You must provide a Pool Expression"), 0)
        ELSE IF q.evtErr THEN Return(c3, ErrEventNew, 0)
        ELSE ReturnDeferred(c4, q.provErr, 0)

\* ------------------------------------------------------------------- state

VARIABLES
    input,       \* the run's input (never changes)
    \* encoding pipeline
    sent,        \* number of messages the producer has sent
    msgChan,     \* msgChan of ChannelFromWriter: the buffered messages
    msgClosed,   \* the producer has closed msgChan
    wpc,         \* position of the write goroutine
    wmsg,        \* write: msg of the current iteration
    werr,        \* write: err of the current iteration
    sink,        \* the gob messages the sink has accepted
    writes,      \* number of Write calls made on the sink
    errChan,     \* errChan of ChannelFromWriter: the buffered errors
    errCloses,   \* number of close(errCh) executed by write
    errGot,      \* the errors the caller has received from errChan
    attempted,   \* history: the messages Encode was called on
    failed,      \* history: the errors Encode returned
    errPut,      \* history: the errors inserted into errChan
    errPutAfterClose, \* history: an error was inserted after close(errCh)
    \* decoding pipeline
    rpc,         \* position of the read goroutine ("idle": not created yet)
    source,      \* the reader r: its gob messages and how it ends
    rpos,        \* next gob message of the source to read
    known,       \* the types the decoder has received
    rmsg,        \* read: msg of the current iteration
    rerr,        \* read: err
    outChan,     \* msgCh of ChannelFromReader
    outCloses,   \* number of close(ch) executed by read
    derrChan,    \* errCh of ChannelFromReader
    derrCloses,  \* number of close(errCh) executed by read
    delivered,   \* the messages the consumer has received from msgCh
    derrGot,     \* the errors the consumer has received from errCh
    decodeCalls, \* history: number of Decode calls
    outPut,      \* history: the messages inserted into msgCh
    derrPut,     \* history: the errors inserted into errCh
    \* what the callers have observed
    errSeenClosed,  \* a receive on the encoder's errChan reported it closed
    outSeenClosed,  \* a receive on the decoder's msgCh reported it closed
    derrSeenClosed  \* a receive on the decoder's errCh reported it closed

encVars == <<sent, msgChan, msgClosed, wpc, wmsg, werr, sink, writes, errChan,
             errCloses, errGot, attempted, failed, errPut, errPutAfterClose>>
decVars == <<rpc, source, rpos, known, rmsg, rerr, outChan, outCloses,
             derrChan, derrCloses, delivered, derrGot, decodeCalls, outPut,
             derrPut>>
obsVars == <<errSeenClosed, outSeenClosed, derrSeenClosed>>

\* package api: the request served and what its handler did
VARIABLES
    request,       \* the request and the answers of its collaborators
    calls,         \* the calls the handler made, in order
    returned,      \* the error the handler returned
    statusWritten, \* the status given to w.WriteHeader (0: not called)
    evtDone,       \* the arguments of the evt.Done calls
    body,          \* the list encoded to the response
    queried        \* the filters given to ListPossiblePools and ListPools

apiVars == <<request, calls, returned, statusWritten, evtDone, body, queried>>

\* No request was served.
ApiIdle ==
    /\ request = NoRequest
    /\ calls = <<>>
    /\ returned = NilErr
    /\ statusWritten = 0
    /\ evtDone = <<>>
    /\ body = <<>>
    /\ queried = [teams |-> NilSlice, poolNames |-> NilSlice]

vars == <<input, encVars, decVars, obsVars, apiVars>>

\* ChannelFromWriter(w) has returned: both channels made, write started.
InitWith(ins) ==
    /\ input \in ins
    /\ ApiIdle
    /\ sent = 0
    /\ msgChan = <<>>
    /\ msgClosed = FALSE
    /\ wpc = "range"
    /\ wmsg = ZeroMessage
    /\ werr = [n |-> 0]
    /\ sink = <<>>
    /\ writes = 0
    /\ errChan = <<>>
    /\ errCloses = 0
    /\ errGot = <<>>
    /\ attempted = <<>>
    /\ failed = <<>>
    /\ errPut = <<>>
    /\ errPutAfterClose = FALSE
    /\ rpc = "idle"
    /\ source = [items |-> <<>>, end |-> "eof"]
    /\ rpos = 1
    /\ known = {}
    /\ rmsg = ZeroMessage
    /\ rerr = ""
    /\ outChan = <<>>
    /\ outCloses = 0
    /\ derrChan = <<>>
    /\ derrCloses = 0
    /\ delivered = <<>>
    /\ derrGot = <<>>
    /\ decodeCalls = 0
    /\ outPut = <<>>
    /\ derrPut = <<>>
    /\ errSeenClosed = FALSE
    /\ outSeenClosed = FALSE
    /\ derrSeenClosed = FALSE

Init == InitWith(Inputs)
LiveInit == InitWith(LiveInputs)

\* ------------------------------------------------------- encoding pipeline

\* The producer: ch <- msg, for the next message of the input.
Send ==
    /\ ~msgClosed
    /\ sent < Len(input.msgs)
    /\ Len(msgChan) < MsgChanCap
    /\ msgChan' = Append(msgChan, input.msgs[sent + 1])
    /\ sent' = sent + 1
    /\ UNCHANGED <<input, apiVars, obsVars, msgClosed, wpc, wmsg, werr, sink, writes, errChan,
                   errCloses, errGot, attempted, failed, errPut,
                   errPutAfterClose, decVars>>

\* The producer: close(ch).
CloseMsgChan ==
    /\ ~msgClosed
    /\ msgClosed' = TRUE
    /\ UNCHANGED <<input, apiVars, obsVars, sent, msgChan, wpc, wmsg, werr, sink, writes,
                   errChan, errCloses, errGot, attempted, failed, errPut,
                   errPutAfterClose, decVars>>

\* write with a loop that does not wait for the close: it leaves as soon as
\* ch is empty.
WriteRangeNoWait ==
    /\ wpc = "range"
    /\ \/ /\ msgChan # <<>>
          /\ wmsg' = Head(msgChan)
          /\ msgChan' = Tail(msgChan)
          /\ wpc' = "encode"
       \/ /\ msgChan = <<>>
          /\ wpc' = "return"
          /\ UNCHANGED <<wmsg, msgChan>>
    /\ UNCHANGED <<input, apiVars, obsVars, sent, msgClosed, werr, sink, writes, errChan,
                   errCloses, errGot, attempted, failed, errPut,
                   errPutAfterClose, decVars>>

\* write: for msg := range ch. Takes the next message, or leaves the loop
\* when ch is closed and empty, or blocks.
WriteRange ==
    /\ wpc = "range"
    /\ \/ /\ msgChan # <<>>
          /\ wmsg' = Head(msgChan)
          /\ msgChan' = Tail(msgChan)
          /\ wpc' = "encode"
       \/ /\ msgChan = <<>>
          /\ msgClosed
          /\ wpc' = "return"
          /\ UNCHANGED <<wmsg, msgChan>>
    /\ UNCHANGED <<input, apiVars, obsVars, sent, msgClosed, werr, sink, writes, errChan,
                   errCloses, errGot, attempted, failed, errPut,
                   errPutAfterClose, decVars>>

\* The writes of one Encode call that starts after n Write calls: the gob
\* messages are written one by one and the first failing Write ends the call.
FirstFail(f, n, its) ==
    IF \E j \in 1..Len(its) : Fails(f, n + j)
    THEN CHOOSE j \in 1..Len(its) :
            /\ Fails(f, n + j)
            /\ \A i \in 1..(j - 1) : ~Fails(f, n + i)
    ELSE 0

\* write: encoder := gob.NewEncoder(w); err := encoder.Encode(msg).
WriteEncode ==
    /\ wpc = "encode"
    /\ LET its == GobEncode(NewEncoder, wmsg)
           j == FirstFail(input.fail, writes, its)
       IN  /\ attempted' = Append(attempted, wmsg)
           /\ IF j = 0
              THEN /\ sink' = sink \o its
                   /\ writes' = writes + Len(its)
                   /\ wpc' = "range"
                   /\ UNCHANGED <<werr, failed>>
              ELSE /\ sink' = sink \o SubSeq(its, 1, j - 1)
                   /\ writes' = writes + j
                   /\ werr' = [n |-> Len(attempted) + 1]
                   /\ failed' = Append(failed, [n |-> Len(attempted) + 1])
                   /\ wpc' = "errsend"
    /\ UNCHANGED <<input, apiVars, obsVars, sent, msgChan, msgClosed, wmsg, errChan, errCloses,
                   errGot, errPut, errPutAfterClose, decVars>>

\* write that gives up after a failure, as read does: errCh <- err; return.
WriteErrSendStop ==
    /\ wpc = "errsend"
    /\ Len(errChan) < ErrChanCap
    /\ errChan' = Append(errChan, werr)
    /\ errPut' = Append(errPut, werr)
    /\ errPutAfterClose' = (errPutAfterClose \/ errCloses > 0)
    /\ wpc' = "return"
    /\ UNCHANGED <<input, apiVars, obsVars, sent, msgChan, msgClosed, wmsg, werr, sink, writes,
                   errCloses, errGot, attempted, failed, decVars>>

\* write with a send that does not block: select { case errCh <- err: default: }.
WriteErrSendDrop ==
    /\ wpc = "errsend"
    /\ IF Len(errChan) < ErrChanCap
       THEN /\ errChan' = Append(errChan, werr)
            /\ errPut' = Append(errPut, werr)
       ELSE UNCHANGED <<errChan, errPut>>
    /\ errPutAfterClose' = (errPutAfterClose \/ errCloses > 0)
    /\ wpc' = "range"
    /\ UNCHANGED <<input, apiVars, obsVars, sent, msgChan, msgClosed, wmsg, werr, sink, writes,
                   errCloses, errGot, attempted, failed, decVars>>

\* write: errCh <- err. Blocks while errCh is full.
WriteErrSend ==
    /\ wpc = "errsend"
    /\ Len(errChan) < ErrChanCap
    /\ errChan' = Append(errChan, werr)
    /\ errPut' = Append(errPut, werr)
    /\ errPutAfterClose' = (errPutAfterClose \/ errCloses > 0)
    /\ wpc' = "range"
    /\ UNCHANGED <<input, apiVars, obsVars, sent, msgChan, msgClosed, wmsg, werr, sink, writes,
                   errCloses, errGot, attempted, failed, decVars>>

\* write: defer close(errCh), run when the loop is left.
WriteClose ==
    /\ wpc = "return"
    /\ errCloses' = errCloses + 1
    /\ wpc' = "done"
    /\ UNCHANGED <<input, apiVars, obsVars, sent, msgChan, msgClosed, wmsg, werr, sink, writes,
                   errChan, errGot, attempted, failed, errPut,
                   errPutAfterClose, decVars>>

\* The caller: err := <-errCh, when an error is buffered.
RecvErr ==
    /\ errChan # <<>>
    /\ errGot' = Append(errGot, Head(errChan))
    /\ errChan' = Tail(errChan)
    /\ UNCHANGED <<input, apiVars, obsVars, sent, msgChan, msgClosed, wpc, wmsg, werr, sink,
                   writes, errCloses, attempted, failed, errPut,
                   errPutAfterClose, decVars>>

\* The caller: err, ok := <-errCh on the closed, empty channel: ok is false.
RecvErrClosed ==
    /\ errChan = <<>>
    /\ errCloses > 0
    /\ errSeenClosed' = TRUE
    /\ UNCHANGED <<input, apiVars, encVars, decVars, outSeenClosed, derrSeenClosed>>

\* ------------------------------------------------------- decoding pipeline

\* ChannelFromReader(r): makes both channels and starts read, whose first
\* statement creates the decoder. In a wired run r is the buffer the encoder
\* wrote, read once the encoder has shut down (its error channel is closed).
ChannelFromReader ==
    /\ rpc = "idle"
    /\ input.wired => wpc = "done"
    /\ source' = IF input.wired
                 THEN [items |-> sink, end |-> "eof"]
                 ELSE [items |-> input.items, end |-> input.end]
    /\ known' = {}
    /\ rpc' = "decode"
    /\ UNCHANGED <<input, apiVars, obsVars, encVars, rpos, rmsg, rerr, outChan, outCloses,
                   derrChan, derrCloses, delivered, derrGot, decodeCalls,
                   outPut, derrPut>>

\* read without the test err != io.EOF: io.EOF is sent like any error.
ReadDecodeSendsEOF ==
    /\ rpc = "decode"
    /\ LET d == GobDecode(source.items, source.end, rpos, known)
       IN  /\ rpos' = d.pos
           /\ known' = d.known
           /\ decodeCalls' = decodeCalls + 1
           /\ rerr' = d.err
           /\ rmsg' = d.msg
           /\ rpc' = CASE d.res = "ok" -> "msgsend"
                       [] OTHER -> "errsend"
    /\ UNCHANGED <<input, apiVars, obsVars, encVars, source, outChan, outCloses, derrChan,
                   derrCloses, delivered, derrGot, outPut, derrPut>>

\* read: var msg Message; err = decoder.Decode(&msg), and the branch on err.
ReadDecode ==
    /\ rpc = "decode"
    /\ LET d == GobDecode(source.items, source.end, rpos, known)
       IN  /\ rpos' = d.pos
           /\ known' = d.known
           /\ decodeCalls' = decodeCalls + 1
           /\ rerr' = d.err
           /\ rmsg' = d.msg
           /\ rpc' = CASE d.res = "ok" -> "msgsend"
                       [] d.res = "eof" -> "closemsg"
                       [] OTHER -> "errsend"
    /\ UNCHANGED <<input, apiVars, obsVars, encVars, source, outChan, outCloses, derrChan,
                   derrCloses, delivered, derrGot, outPut, derrPut>>

\* read with a loop that ends after the first message: ch <- msg; break.
ReadMsgSendOnce ==
    /\ rpc = "msgsend"
    /\ Len(outChan) < OutChanCap
    /\ outChan' = Append(outChan, rmsg)
    /\ outPut' = Append(outPut, rmsg)
    /\ rpc' = "closemsg"
    /\ UNCHANGED <<input, apiVars, obsVars, encVars, source, rpos, known, rmsg, rerr, outCloses,
                   derrChan, derrCloses, delivered, derrGot, decodeCalls,
                   derrPut>>

\* read: ch <- msg. Blocks while ch is full; then the loop goes on.
ReadMsgSend ==
    /\ rpc = "msgsend"
    /\ Len(outChan) < OutChanCap
    /\ outChan' = Append(outChan, rmsg)
    /\ outPut' = Append(outPut, rmsg)
    /\ rpc' = "decode"
    /\ UNCHANGED <<input, apiVars, obsVars, encVars, source, rpos, known, rmsg, rerr, outCloses,
                   derrChan, derrCloses, delivered, derrGot, decodeCalls,
                   derrPut>>

\* read that goes on after a failure, as write does.
ReadErrSendContinue ==
    /\ rpc = "errsend"
    /\ Len(derrChan) < DErrChanCap
    /\ derrChan' = Append(derrChan, rerr)
    /\ derrPut' = Append(derrPut, rerr)
    /\ rpc' = "decode"
    /\ UNCHANGED <<input, apiVars, obsVars, encVars, source, rpos, known, rmsg, rerr, outChan,
                   outCloses, derrCloses, delivered, derrGot, decodeCalls,
                   outPut>>

\* read: errCh <- err. Blocks while errCh is full; then the loop ends.
ReadErrSend ==
    /\ rpc = "errsend"
    /\ Len(derrChan) < DErrChanCap
    /\ derrChan' = Append(derrChan, rerr)
    /\ derrPut' = Append(derrPut, rerr)
    /\ rpc' = "closemsg"
    /\ UNCHANGED <<input, apiVars, obsVars, encVars, source, rpos, known, rmsg, rerr, outChan,
                   outCloses, derrCloses, delivered, derrGot, decodeCalls,
                   outPut>>

\* read that closes errCh where it should close ch.
ReadCloseMsgWrongChannel ==
    /\ rpc = "closemsg"
    /\ derrCloses' = derrCloses + 1
    /\ rpc' = "closeerr"
    /\ UNCHANGED <<input, apiVars, obsVars, encVars, source, rpos, known, rmsg, rerr, outChan,
                   derrChan, outCloses, delivered, derrGot, decodeCalls,
                   outPut, derrPut>>

\* read: close(ch).
ReadCloseMsg ==
    /\ rpc = "closemsg"
    /\ outCloses' = outCloses + 1
    /\ rpc' = "closeerr"
    /\ UNCHANGED <<input, apiVars, obsVars, encVars, source, rpos, known, rmsg, rerr, outChan,
                   derrChan, derrCloses, delivered, derrGot, decodeCalls,
                   outPut, derrPut>>

\* read that closes ch a second time where it should close errCh.
ReadCloseErrMsgAgain ==
    /\ rpc = "closeerr"
    /\ outCloses' = outCloses + 1
    /\ rpc' = "done"
    /\ UNCHANGED <<input, apiVars, obsVars, encVars, source, rpos, known, rmsg, rerr, outChan,
                   derrCloses, derrChan, delivered, derrGot, decodeCalls,
                   outPut, derrPut>>

\* read: close(errCh).
ReadCloseErr ==
    /\ rpc = "closeerr"
    /\ derrCloses' = derrCloses + 1
    /\ rpc' = "done"
    /\ UNCHANGED <<input, apiVars, obsVars, encVars, source, rpos, known, rmsg, rerr, outChan,
                   outCloses, derrChan, delivered, derrGot, decodeCalls,
                   outPut, derrPut>>

\* The consumer: msg := <-ch, when a message is buffered.
RecvMsg ==
    /\ outChan # <<>>
    /\ delivered' = Append(delivered, Head(outChan))
    /\ outChan' = Tail(outChan)
    /\ UNCHANGED <<input, apiVars, obsVars, encVars, rpc, source, rpos, known, rmsg, rerr,
                   outCloses, derrChan, derrCloses, derrGot, decodeCalls,
                   outPut, derrPut>>

\* The consumer: err := <-errCh, when an error is buffered.
RecvDecErr ==
    /\ derrChan # <<>>
    /\ derrGot' = Append(derrGot, Head(derrChan))
    /\ derrChan' = Tail(derrChan)
    /\ UNCHANGED <<input, apiVars, obsVars, encVars, rpc, source, rpos, known, rmsg, rerr,
                   outChan, outCloses, derrCloses, delivered, decodeCalls,
                   outPut, derrPut>>

\* The consumer: msg, ok := <-ch on the closed, empty channel: ok is false.
RecvMsgClosed ==
    /\ outChan = <<>>
    /\ outCloses > 0
    /\ outSeenClosed' = TRUE
    /\ UNCHANGED <<input, apiVars, encVars, decVars, errSeenClosed, derrSeenClosed>>

\* The consumer: err, ok := <-errCh on the closed, empty channel: ok is false.
RecvDecErrClosed ==
    /\ derrChan = <<>>
    /\ derrCloses > 0
    /\ derrSeenClosed' = TRUE
    /\ UNCHANGED <<input, apiVars, encVars, decVars, errSeenClosed, outSeenClosed>>

\* ----------------------------------------------------------- specification

WriteWorker == WriteRange \/ WriteEncode \/ WriteErrSend \/ WriteClose
ReadWorker ==
    ReadDecode \/ ReadMsgSend \/ ReadErrSend \/ ReadCloseMsg \/ ReadCloseErr

Next ==
    \/ Send
    \/ CloseMsgChan
    \/ WriteRange
    \/ WriteEncode
    \/ WriteErrSend
    \/ WriteClose
    \/ RecvErr
    \/ RecvErrClosed
    \/ ChannelFromReader
    \/ ReadDecode
    \/ ReadMsgSend
    \/ ReadErrSend
    \/ ReadCloseMsg
    \/ ReadCloseErr
    \/ RecvMsg
    \/ RecvDecErr
    \/ RecvMsgClosed
    \/ RecvDecErrClosed

Spec == Init /\ [][Next]_vars

\* The Go scheduler runs every goroutine that can take a step: the two
\* workers are weakly fair. Producer and consumers are free to stop.
FairSpec ==
    LiveInit /\ [][Next]_vars /\ WF_vars(WriteWorker) /\ WF_vars(ReadWorker)

\* -------------------------------------------- package api: serving a request

nqVars == <<input, encVars, decVars, obsVars>>

\* What one handler call leaves behind.
Answer(q, res) ==
    /\ request' = q
    /\ calls' = res.calls
    /\ returned' = res.ret
    /\ statusWritten' = res.status
    /\ evtDone' = res.done
    /\ body' = res.body
    /\ queried' = [teams |-> res.teams, poolNames |-> res.poolNames]
    /\ UNCHANGED nqVars

\* The router calls one handler with (w, r, t). The handlers keep no state of
\* their own between two calls, so a behaviour serves one request.
ServePoolList ==
    /\ request = NoRequest
    /\ \E q \in PoolListRequests : Answer(q, poolList(q))

ServeAddPool ==
    /\ request = NoRequest
    /\ \E q \in AddPoolRequests : Answer(q, addPoolHandler(q))

ServeRemovePool ==
    /\ request = NoRequest
    /\ \E q \in RemovePoolRequests : Answer(q, removePoolHandler(q))

ServeAddTeam ==
    /\ request = NoRequest
    /\ \E q \in AddTeamRequests : Answer(q, addTeamToPoolHandler(q))

ServeRemoveTeam ==
    /\ request = NoRequest
    /\ \E q \in RemoveTeamRequests : Answer(q, removeTeamToPoolHandler(q))

ServePoolUpdate ==
    /\ request = NoRequest
    /\ \E q \in PoolUpdateRequests : Answer(q, poolUpdateHandler(q))

ServeConstraintList ==
    /\ request = NoRequest
    /\ \E q \in ConstraintListRequests : Answer(q, poolConstraintList(q))

ServeConstraintSet ==
    /\ request = NoRequest
    /\ \E q \in ConstraintSetRequests : Answer(q, poolConstraintSet(q))

ApiNext ==
    \/ ServePoolList
    \/ ServeAddPool
    \/ ServeRemovePool
    \/ ServeAddTeam
    \/ ServeRemoveTeam
    \/ ServePoolUpdate
    \/ ServeConstraintList
    \/ ServeConstraintSet

\* The api package does not use netqueue: its pipelines stay as constructed.
ApiInit == InitWith({WiredInput(<<>>, NoFail)})

ApiSpec == ApiInit /\ [][ApiNext]_vars

\* ------------------------------------------------------------------ claims

\* Two messages are the same when Action and Args agree (a nil and an empty
\* Args slice both have no element).
SameMsg(a, b) == a.Action = b.Action /\ a.Args = b.Args
SameSeq(s, t) == Len(s) = Len(t) /\ \A i \in 1..Len(s) : SameMsg(s[i], t[i])

\* The messages the producer has sent so far.
SentMsgs == SubSeq(input.msgs, 1, sent)

\* The decoder has shut down and the consumer has received all it left.
DecoderDrained == rpc = "done" /\ outChan = <<>> /\ derrChan = <<>>

\* A wired run without sink failures, in which the producer sent every
\* message before closing, the decoder has shut down and was drained.
WiredRunOver ==
    /\ input.wired
    /\ input.fail = NoFail
    /\ sent = Len(input.msgs)
    /\ DecoderDrained

\* C1: the messages sent through ChannelFromWriter and read back by
\* ChannelFromReader from the bytes the sink received are delivered all, in
\* the order sent, and no error is delivered.
C1_OrderPreserved ==
    WiredRunOver => SameSeq(delivered, input.msgs) /\ derrPut = <<>>

\* C2: one message sent through ChannelFromWriter and read back by
\* ChannelFromReader comes out with the same Action and the same Args, element
\* by element.
C2_RoundTrip ==
    (WiredRunOver /\ Len(input.msgs) = 1) =>
        /\ Len(delivered) = 1
        /\ delivered[1].Action = input.msgs[1].Action
        /\ Len(delivered[1].Args) = Len(input.msgs[1].Args)
        /\ \A i \in 1..Len(input.msgs[1].Args) :
              delivered[1].Args[i] = input.msgs[1].Args[i]
        /\ derrPut = <<>>

\* C2 witness: a message with two different arguments has made the round trip.
C2_Witness ==
    /\ WiredRunOver
    /\ Len(input.msgs) = 1
    /\ input.msgs[1].Args = <<"x", "y">>
    /\ Len(delivered) = 1

\* C3: once the caller has closed the message channel, the
\* encoder's error channel is eventually closed, whatever was queued and
\* whatever failed, the worker being scheduled fairly.
C3_CloseLeadsToErrClose == msgClosed ~> (errCloses > 0)

\* What write does guarantee: the close follows for a caller that keeps
\* receiving from the error channel. A worker blocked on a full error channel
\* that nobody receives from never reaches its close.
CloseLeadsToErrCloseWhenDrained ==
    WF_vars(RecvErr) => (msgClosed ~> (errCloses > 0))

\* A run of the kind C3 is about: the channel was closed behind several
\* messages, some of which failed, and the error channel got closed.
ClosedBehindFailures ==
    /\ msgClosed
    /\ errCloses > 0
    /\ Len(attempted) >= 2
    /\ Len(failed) >= 1
    /\ Len(failed) < Len(attempted)

\* What the write goroutine writes for ms on a sink that never fails: each
\* message by an encoder of its own.
RECURSIVE StreamPer(_)
StreamPer(ms) ==
    IF ms = <<>> THEN <<>>
    ELSE GobEncode(NewEncoder, Head(ms)) \o StreamPer(Tail(ms))

\* The sink fails on exactly one Write, and that Write has been made.
FailedOnce == input.fail.lo = input.fail.hi /\ writes >= input.fail.lo

\* C4: a failing Encode puts one error for its message on the error channel
\* and the worker goes on with the later messages, in order; when the sink
\* failed on one Write only, there is one error and every other message is in
\* the sink, written in full.
C4_FailureNotFatal ==
    /\ attempted \o (IF wpc = "encode" THEN <<wmsg>> ELSE <<>>) \o msgChan
         = SentMsgs
    /\ \A i \in 1..(Len(errPut) - 1) : errPut[i].n < errPut[i + 1].n
    /\ wpc = "done" => attempted = SentMsgs /\ errPut = failed
    /\ (FailedOnce /\ wpc = "done") =>
          /\ Len(errPut) = 1
          /\ LET f == errPut[1].n IN
               \E j \in 0..Len(MessageTypes) :
                  sink = StreamPer(SubSeq(attempted, 1, f - 1))
                           \o SubSeq(GobEncode(NewEncoder, attempted[f]), 1, j)
                           \o StreamPer(SubSeq(attempted, f + 1, Len(attempted)))

\* C4 witness: the sink failed on the second of three messages only; the
\* worker has finished and the third message is the last thing in the sink.
C4_Witness ==
    /\ FailedOnce
    /\ wpc = "done"
    /\ Len(attempted) = 3
    /\ failed = <<[n |-> 2]>>
    /\ errPut = failed
    /\ sink # <<>>
    /\ sink[Len(sink)] = ValueOf(attempted[3])

\* A source prepared beforehand that holds valid records only and ends with
\* io.EOF.
IsCleanSource ==
    /\ ~input.wired
    /\ input.end = "eof"
    /\ \A i \in 1..Len(input.items) : input.items[i] # Corrupt

\* C5: on such a source the decoder delivers the K records, in order, closes
\* both channels afterwards, once each, and never puts anything on the error
\* channel; until it has shut down it can always take a step, or the consumer
\* can receive.
C5_CleanEndOfStream ==
    IsCleanSource =>
        /\ derrPut = <<>>
        /\ Len(outPut) <= Len(input.srcMsgs)
        /\ SameSeq(outPut, SubSeq(input.srcMsgs, 1, Len(outPut)))
        /\ delivered \o outChan = outPut
        /\ outCloses <= 1 /\ derrCloses <= 1
        /\ (outCloses > 0 \/ derrCloses > 0) => Len(outPut) = Len(input.srcMsgs)
        /\ rpc = "done" => outCloses = 1 /\ derrCloses = 1
        /\ rpc \notin {"idle", "done"} => ENABLED ReadWorker \/ ENABLED RecvMsg
        /\ DecoderDrained => SameSeq(delivered, input.srcMsgs)

\* C5 witness: a clean source of several records was read to its end and the
\* consumer has received them all.
C5_Witness ==
    /\ IsCleanSource
    /\ DecoderDrained
    /\ Len(delivered) >= 2
    /\ Len(delivered) = Len(input.srcMsgs)
    /\ outCloses = 1 /\ derrCloses = 1

\* A source prepared beforehand whose first input.valid records are valid and
\* which then fails: corrupted bytes, or a read error at its end.
IsFailingSource ==
    /\ ~input.wired
    /\ \/ input.end = "err"
       \/ \E i \in 1..Len(input.items) : input.items[i] = Corrupt

\* The position after the failure point of a failing source.
FailurePoint ==
    IF \E i \in 1..Len(input.items) : input.items[i] = Corrupt
    THEN 1 + CHOOSE i \in 1..Len(input.items) : input.items[i] = Corrupt
    ELSE Len(input.items) + 1

\* C6: on such a source the decoder delivers the K valid records, puts one
\* error on the error channel, closes both channels, and neither reads past
\* the failure point nor delivers anything that follows it.
C6_FailureFatal ==
    IsFailingSource =>
        /\ Len(derrPut) <= 1
        /\ Len(outPut) <= input.valid
        /\ SameSeq(outPut, SubSeq(input.srcMsgs, 1, Len(outPut)))
        /\ delivered \o outChan = outPut
        /\ decodeCalls <= input.valid + 1
        /\ rpos <= FailurePoint
        /\ derrPut # <<>> =>
              /\ Len(outPut) = input.valid
              /\ decodeCalls = input.valid + 1
              /\ rpc \in {"closemsg", "closeerr", "done"}
        /\ (outCloses > 0 \/ derrCloses > 0) => Len(derrPut) = 1
        /\ rpc = "done" => outCloses = 1 /\ derrCloses = 1
        /\ rpc \notin {"idle", "done"} => ENABLED ReadWorker \/ ENABLED RecvMsg
        /\ DecoderDrained =>
              /\ SameSeq(delivered, SubSeq(input.srcMsgs, 1, input.valid))
              /\ Len(derrGot) = 1

\* C6 witness: a source with valid records on both sides of corrupted bytes
\* was read; the consumer has the records before them and the one error.
C6_Witness ==
    /\ IsFailingSource
    /\ DecoderDrained
    /\ Len(delivered) >= 1
    /\ Len(delivered) < Len(input.srcMsgs)
    /\ FailurePoint <= Len(input.items)
    /\ Len(derrGot) = 1

\* C7: no error of the encoder is lost. The errors put on the error channel,
\* plus the one the worker holds while it inserts, are the errors Encode
\* returned, in the order of the failing messages; what was put is what the
\* caller received followed by what is buffered; a worker holding an error
\* before a channel of ChanSize errors is stalled.
C7_NoErrorLost ==
    /\ Len(errPut) + (IF wpc = "errsend" THEN 1 ELSE 0) = Len(failed)
    /\ errPut = SubSeq(failed, 1, Len(errPut))
    /\ wpc = "errsend" => werr = failed[Len(failed)]
    /\ errGot \o errChan = errPut
    /\ \A i \in 1..(Len(failed) - 1) : failed[i].n < failed[i + 1].n
    /\ \A i \in 1..Len(failed) : failed[i].n <= Len(attempted)
    /\ Len(errChan) <= ChanSize
    /\ (wpc = "errsend" /\ Len(errChan) = ChanSize) => ~ENABLED WriteWorker

\* C7 witness: the caller has received nothing, ChanSize errors are buffered
\* and the worker holds one more.
C7_Witness ==
    /\ errGot = <<>>
    /\ Len(errChan) = ChanSize
    /\ wpc = "errsend"
    /\ Len(failed) = ChanSize + 1

\* C8: the encoder's error channel is closed at most once; when it is closed
\* the caller has closed the message channel, this one is empty, and Encode
\* was called on every message sent; nothing is put on it afterwards.
C8_ErrClosedOnceAtEnd ==
    /\ errCloses <= 1
    /\ errCloses > 0 =>
          /\ msgClosed
          /\ msgChan = <<>>
          /\ attempted = SentMsgs
          /\ wpc = "done"
    /\ ~errPutAfterClose

\* C8 witness: the error channel was closed after several messages, one of
\* which failed.
C8_Witness ==
    /\ errCloses = 1
    /\ Len(attempted) >= 2
    /\ Len(failed) >= 1

\* C9: none of the four channels ever holds more than ChanSize items; an
\* insertion into a channel that holds ChanSize items cannot complete, and a
\* removal from an empty channel that is still open cannot complete.
C9_BoundedChannels ==
    /\ Len(msgChan) <= ChanSize
    /\ Len(errChan) <= ChanSize
    /\ Len(outChan) <= ChanSize
    /\ Len(derrChan) <= ChanSize
    /\ Len(msgChan) = ChanSize => ~ENABLED Send
    /\ Len(errChan) = ChanSize => ~ENABLED WriteErrSend
    /\ Len(outChan) = ChanSize => ~ENABLED ReadMsgSend
    /\ Len(derrChan) = ChanSize => ~ENABLED ReadErrSend
    /\ (msgChan = <<>> /\ ~msgClosed) => ~ENABLED WriteRange
    /\ (errChan = <<>> /\ errCloses = 0) => ~ENABLED (RecvErr \/ RecvErrClosed)
    /\ (outChan = <<>> /\ outCloses = 0) => ~ENABLED (RecvMsg \/ RecvMsgClosed)
    /\ (derrChan = <<>> /\ derrCloses = 0) =>
          ~ENABLED (RecvDecErr \/ RecvDecErrClosed)

\* C9 witness: the message channel of the encoder holds ChanSize messages and
\* the producer has another one to insert.
C9_Witness ==
    /\ Len(msgChan) = ChanSize
    /\ ~msgClosed
    /\ sent < Len(input.msgs)

\* The write goroutine holds an error before a full error channel.
WorkerBlockedOnErr == wpc = "errsend" /\ Len(errChan) = ChanSize

\* The producer has a message to insert into the open message channel.
ProducerWaiting == ~msgClosed /\ sent < Len(input.msgs)

\* C10: while the worker is blocked on the full error channel,
\* the producer's insertion into the message channel is not blocked.
C10_ProducerNeverBlocked ==
    (WorkerBlockedOnErr /\ ProducerWaiting) => ENABLED Send

\* What write does guarantee: while the worker is blocked on the full error
\* channel it takes no message, so the message channel holds every message
\* sent behind the one whose error it holds; the producer's insertion
\* completes while these are fewer than ChanSize and is blocked once they are
\* ChanSize.
ProducerBlockedWhenFull ==
    WorkerBlockedOnErr =>
        /\ Len(msgChan) = sent - Len(attempted)
        /\ sent - Len(attempted) <= ChanSize
        /\ (ProducerWaiting /\ sent - Len(attempted) < ChanSize) => ENABLED Send
        /\ sent - Len(attempted) = ChanSize => ~ENABLED Send

\* The worker is blocked on the full error channel and the producer, with
\* one place left in the message channel, has more to send.
ProducerStillFree ==
    /\ WorkerBlockedOnErr
    /\ ProducerWaiting
    /\ Len(msgChan) = ChanSize - 1

\* The read goroutine holds a decoded message before a full message channel.
ReaderBlockedOnMsg == rpc = "msgsend" /\ Len(outChan) = ChanSize

\* C11: a channel of the decoder is closed only after a Decode call that
\* returned io.EOF or another error; once one is closed the worker neither
\* reads the source nor inserts again, and once both are it takes no step at
\* all; a worker blocked on the full message channel takes no step either, so
\* that the channels stay open as long as the consumer does not receive.
C11_ClosedOnlyByEndOrError ==
    /\ (outCloses > 0 \/ derrCloses > 0) =>
          /\ decodeCalls > 0
          /\ rerr # ""
          /\ rpc \in {"closeerr", "done"}
          /\ ~ENABLED (ReadDecode \/ ReadMsgSend \/ ReadErrSend)
    /\ rpc = "done" => ~ENABLED ReadWorker
    /\ ReaderBlockedOnMsg =>
          /\ ~ENABLED ReadWorker
          /\ outCloses = 0
          /\ derrCloses = 0

\* C11 witness: the decoder has shut down after corrupted bytes that followed
\* a valid record.
C11_Witness ==
    /\ rpc = "done"
    /\ outCloses = 1
    /\ derrCloses = 1
    /\ rerr = "gob: corrupted data"
    /\ Len(outPut) >= 1

\* The other case of C11: the source has more valid records, the message
\* channel is full and the worker is blocked with both channels open.
ReaderBlockedWithMoreToRead ==
    /\ ReaderBlockedOnMsg
    /\ rpos <= Len(source.items)
    /\ outCloses = 0

\* The number of records the decoder has taken from the source.
ValuesRead ==
    Cardinality({i \in 1..(rpos - 1) : source.items[i].k = "value"})

\* C13: the decode worker does not read ahead of the consumer. While it holds
\* a decoded message it cannot call Decode; when it can, everything it decoded
\* has been inserted; the records taken from the source exceed the messages
\* the consumer has received by ChanSize + 1 at most.
C13_NoReadAhead ==
    /\ rpc = "msgsend" => ~ENABLED ReadDecode
    /\ ENABLED ReadDecode => Len(outPut) = ValuesRead
    /\ Len(outPut) = Len(delivered) + Len(outChan)
    /\ ValuesRead - Len(delivered) <= ChanSize + 1
    /\ decodeCalls - Len(delivered) <= ChanSize + 2

\* C13 witness: the consumer has received one message, ChanSize more are
\* buffered and the worker is blocked holding the next one.
C13_Witness ==
    /\ ReaderBlockedOnMsg
    /\ Len(delivered) = 1
    /\ ValuesRead = ChanSize + 2

\* The last Decode call failed with an error other than io.EOF.
DecodeFailed == rerr \notin {"", "EOF"}

\* C14: on a failure other than io.EOF the error is inserted before either
\* channel is closed, and the message channel is closed before the error
\* channel. So the error channel is never closed with the message channel
\* open, and a consumer that has seen the message channel closed after a
\* failed Decode finds the error buffered on the error channel or has received
\* it already.
C14_ShutdownOrder ==
    /\ derrCloses > 0 => outCloses > 0
    /\ rpc = "errsend" => outCloses = 0 /\ derrCloses = 0
    /\ (DecodeFailed /\ outCloses > 0) =>
          /\ derrPut = <<rerr>>
          /\ derrGot \o derrChan = derrPut
    /\ (DecodeFailed /\ outSeenClosed) => derrGot \o derrChan = <<rerr>>

\* C14 witness: after a failed Decode the consumer has seen the message
\* channel closed while the error channel is still open and holds the error.
C14_Witness ==
    /\ DecodeFailed
    /\ outSeenClosed
    /\ derrCloses = 0
    /\ derrChan = <<rerr>>

\* C15: the decoder's error channel receives at most one error in the life of
\* a ChannelFromReader pipeline, so the insertion of the error is always
\* enabled when the read worker reaches it, whatever the consumer has or has
\* not received; a read worker that is started, not finished and unable to
\* step is blocked on the insertion into the full message channel.
C15_SingleDecodeError ==
    /\ Len(derrPut) <= 1
    /\ Len(derrChan) <= 1
    /\ rpc = "errsend" =>
          /\ derrChan = <<>>
          /\ derrPut = <<>>
          /\ ENABLED ReadErrSend
    /\ (rpc \notin {"idle", "done"} /\ ~ENABLED ReadWorker) => ReaderBlockedOnMsg

\* C15 witness: the read worker has inserted its error and finished although
\* the consumer never received anything from either channel.
C15_Witness ==
    /\ rpc = "done"
    /\ derrPut = <<rerr>>
    /\ DecodeFailed
    /\ derrGot = <<>>
    /\ delivered = <<>>
    /\ Len(outChan) >= 1

\* C16: no step closes a channel that is already closed or inserts into one:
\* once the encoder's error channel is closed it is not closed again and no
\* error is inserted; once either of the decoder's channels is closed it is
\* not closed again and nothing is inserted into the decoder's message channel
\* or error channel.
C16_NoUseAfterClose ==
    [][ /\ errCloses > 0 => (errCloses' = errCloses /\ errPut' = errPut)
        /\ outCloses > 0 =>
              /\ outCloses' = outCloses
              /\ outPut' = outPut
              /\ derrPut' = derrPut
        /\ derrCloses > 0 =>
              /\ derrCloses' = derrCloses
              /\ outPut' = outPut
              /\ derrPut' = derrPut ]_vars

\* C16 witness: both workers have finished, each after inserting into its
\* channels, and each of the three channels they close was closed.
C16_Witness ==
    /\ wpc = "done"
    /\ rpc = "done"
    /\ errCloses = 1
    /\ outCloses = 1
    /\ derrCloses = 1
    /\ errPut # <<>>
    /\ outPut # <<>>
    /\ derrPut # <<>>

\* ------------------------------------------------- claims on the handlers

\* The position of the first call x in the call sequence c, 0 when absent.
IndexOf(c, x) ==
    IF \E i \in 1..Len(c) : c[i] = x
    THEN CHOOSE i \in 1..Len(c) : c[i] = x /\ \A j \in 1..(i - 1) : c[j] # x
    ELSE 0

Count(c, x) == Cardinality({i \in 1..Len(c) : c[i] = x})

ProvisionCalls ==
    {"provision.AddPool", "provision.RemovePool", "provision.AddTeamsToPool",
     "provision.RemoveTeamsFromPool", "provision.PoolUpdate",
     "provision.AppendPoolConstraint", "provision.SetPoolConstraint"}

StateChangingHandlers ==
    {"addPoolHandler", "removePoolHandler", "addTeamToPoolHandler",
     "removeTeamToPoolHandler", "poolUpdateHandler", "poolConstraintSet"}

\* The errors with which AddPool says that the pool exists already.
ReportsPoolExists(e) == e \in {ErrDefaultPoolAlreadyExists, ErrDuplicatePoolName}

\* C12: whenever provision.AddPool reports that the pool already exists,
\* addPoolHandler returns a terrors.HTTP with Code 409; it writes status 201
\* only when AddPool returned nil.
C12_ConflictWhenPoolExists ==
    request.handler = "addPoolHandler" =>
        /\ (IndexOf(calls, "provision.AddPool") > 0
                /\ ReportsPoolExists(request.provErr)) =>
              /\ returned.kind = "terrors.HTTP"
              /\ returned.Code = StatusConflict
        /\ statusWritten = StatusCreated =>
              /\ IndexOf(calls, "provision.AddPool") > 0
              /\ request.provErr = NilErr

\* What addPoolHandler does do: 409 for provision.ErrDefaultPoolAlreadyExists
\* and for no other error, 201 exactly when AddPool returned nil.
ConflictOnDefaultPoolOnly ==
    (request.handler = "addPoolHandler" /\ IndexOf(calls, "provision.AddPool") > 0) =>
        /\ (returned.kind = "terrors.HTTP" /\ returned.Code = StatusConflict)
              <=> request.provErr = ErrDefaultPoolAlreadyExists
        /\ statusWritten = StatusCreated <=> request.provErr = NilErr

\* The pool storage refused a second pool of the name and the handler handed
\* the error on as it came.
DuplicateNameUnmapped ==
    /\ request.handler = "addPoolHandler"
    /\ request.provErr = ErrDuplicatePoolName
    /\ returned = ErrDuplicatePoolName
    /\ evtDone = <<ErrDuplicatePoolName>>

\* C17: a state-changing pool handler calls permission.Check before event.New
\* and before every provisioning function; when the check fails it returns
\* permission.ErrUnauthorized with no event created and no provisioning
\* call; a provisioning call comes only after an event.New that succeeded.
C17_PermissionFirst ==
    request.handler \in StateChangingHandlers =>
        LET chk == IndexOf(calls, "permission.Check")
            evt == IndexOf(calls, "event.New")
            prov == {i \in 1..Len(calls) : calls[i] \in ProvisionCalls}
        IN  /\ chk > 0
            /\ evt > 0 => chk < evt
            /\ \A i \in prov : chk < i /\ evt > 0 /\ evt < i /\ ~request.evtErr
            /\ ~request.allowed =>
                  /\ returned = ErrUnauthorized
                  /\ evt = 0
                  /\ prov = {}
                  /\ evtDone = <<>>

\* C17 witness: poolConstraintSet refused a request that had no permission,
\* after the check alone.
C17_Witness ==
    /\ request.handler = "poolConstraintSet"
    /\ ~request.allowed
    /\ returned = ErrUnauthorized
    /\ calls = <<"permission.Check">>

\* C18: when event.New succeeded, evt.Done is called once, last, with the
\* error the handler returns (nil on success); when no event was created it
\* is not called.
C18_EventDoneOnce ==
    request.handler \in StateChangingHandlers =>
        LET created == IndexOf(calls, "event.New") > 0 /\ ~request.evtErr
        IN  /\ created =>
                  /\ evtDone = <<returned>>
                  /\ Count(calls, "evt.Done") = 1
                  /\ calls[Len(calls)] = "evt.Done"
            /\ ~created =>
                  /\ evtDone = <<>>
                  /\ Count(calls, "evt.Done") = 0

\* C18 witness: poolUpdateHandler failed to decode the form after its event
\* was created, and evt.Done got the terrors.HTTP value it returned.
C18_Witness ==
    /\ request.handler = "poolUpdateHandler"
    /\ request.decodeErr
    /\ returned = HTTP(StatusBadRequest, ErrDecodeValues.Message)
    /\ evtDone = <<returned>>

\* C19: poolList answers with the pools of ListPossiblePools(teams) followed,
\* when pool contexts exist, by those of ListPools(poolNames), keeping of each
\* Name the first pool only and the order of those; a global context makes
\* both filters nil and ListPools is not called; status 204 is written, with
\* no body, exactly when that list is empty.
C19_PoolListDistinct ==
    request.handler = "poolList" =>
        LET cs == request.contexts
            global == \E i \in 1..Len(cs) : cs[i].CtxType = "global"
            teamCtx == SelectSeq(cs, LAMBDA c : c.CtxType = "team")
            poolCtx == SelectSeq(cs, LAMBDA c : c.CtxType = "pool")
            teamVals == [i \in 1..Len(teamCtx) |-> teamCtx[i].Value]
            poolVals == [i \in 1..Len(poolCtx) |-> poolCtx[i].Value]
            listNamed == ~global /\ poolVals # <<>>
            ok == /\ request.possible.err = NilErr
                  /\ listNamed => request.named.err = NilErr
            all == request.possible.pools
                      \o (IF listNamed THEN request.named.pools ELSE <<>>)
            firsts == {i \in 1..Len(all) :
                          \A j \in 1..(i - 1) : all[j].Name # all[i].Name}
        IN  /\ global =>
                  /\ queried.teams = NilSlice
                  /\ queried.poolNames = NilSlice
                  /\ IndexOf(calls, "provision.ListPools") = 0
            /\ ~global =>
                  /\ queried.teams = Slice(teamVals)
                  /\ queried.poolNames = Slice(poolVals)
            /\ IndexOf(calls, "provision.ListPools") > 0
                  <=> (listNamed /\ request.possible.err = NilErr)
            /\ ok =>
                  /\ Len(body) = Cardinality(firsts)
                  /\ \A k \in 1..Len(body) :
                        \E i \in firsts :
                            /\ body[k] = all[i]
                            /\ Cardinality({j \in firsts : j < i}) = k - 1
                  /\ \A k \in 1..Len(body) :
                        \A l \in (k + 1)..Len(body) : body[k].Name # body[l].Name
                  /\ statusWritten = StatusNoContent <=> body = <<>>
                  /\ body = <<>> =>
                        /\ returned = NilErr
                        /\ IndexOf(calls, "json.Encode") = 0
                  /\ body # <<>> => IndexOf(calls, "json.Encode") > 0
            /\ ~ok =>
                  /\ statusWritten = 0
                  /\ body = <<>>
                  /\ returned # NilErr

\* C19 witness: both functions were called, a Name came back more than once,
\* and the response has two pools.
C19_Witness ==
    /\ request.handler = "poolList"
    /\ IndexOf(calls, "provision.ListPools") > 0
    /\ Len(request.possible.pools) + Len(request.named.pools) >= 3
    /\ Len(body) = 2
    /\ body[1] = request.possible.pools[1]

====
